---- MODULE Spec2Model ----
(***************************************************************************)
(* A model of pyzero: the search tree (node.py), the value normalizer      *)
(* (helpers.py) and the self-play / search / training loops of cli.py.     *)
(*                                                                         *)
(* Real numbers are held in fixed point, in units of 1/Scale.              *)
(*                                                                         *)
(* cli.py names math, numpy and KnownBounds without importing them (its    *)
(* imports are lines 5-30): the statement that evaluates one of these      *)
(* names raises NameError.  A function that raises is modelled by a record *)
(* whose field `raised` names the exception, "" meaning that it returned.  *)
(***************************************************************************)
EXTENDS Integers, Sequences, FiniteSets, TLC

VARIABLES
    config,          \* the MuZeroConfig in use
    network,         \* play_game: the network snapshot the episode is played with
    game,            \* play_game: the Game being played
    pc,              \* play_game / run_mcts: where the call stands
    tree,            \* the search tree under root
    min_max_stats,   \* run_mcts: the MinMaxStats of the search
    sims,            \* run_mcts: simulations completed
    search_path,     \* run_mcts: the search path of the last simulation
    network_output,  \* run_mcts: the network output of the last simulation
    history,         \* run_mcts: the action history of the last simulation
    noised,          \* the nodes of the tree add_exploration_noise has changed, in order
    raised,          \* play_game / run_mcts: the exception that ended the call, "" if none
    given_bounds,    \* a MinMaxStats on its own: the bounds it was built with
    updates,         \* a MinMaxStats on its own: the values update was called with
    norm_call,       \* a MinMaxStats on its own: the last normalize call, if any
    expand_call,     \* expand_node on its own: the last call, if any
    back_calls,      \* backpropagate on its own: the calls made, in order
    select_call,     \* select_action on its own: the last call, if any
    mz_pc,           \* muzero: where the coordinator stands
    running,         \* muzero: the actor whose run_selfplay is executing, 0 if none
    actor_pc,        \* run_selfplay: where the actor stands
    actor_game,      \* run_selfplay: the game play_game returned
    storage,         \* the SharedStorage: the save_network calls, in order
    replay_buffer,   \* the ReplayBuffer: the games it holds, oldest first
    train_i,         \* train_network: the loop index i
    train_pc,        \* train_network: where the training loop stands
    saved_by,        \* the actors that have called save_game
    failed,          \* the actor a call raised in, 0 if none
    result           \* what muzero returned, if it has

\* the variables of play_game and run_mcts, of a normalizer on its own, of
\* the functions called on their own, and of the pipeline
searchVars == << game, pc, tree, sims, search_path, network_output, history,
                 noised, raised >>

normVars == << given_bounds, updates, norm_call >>

callVars == << expand_call, back_calls, select_call >>

pipeVars == << mz_pc, running, actor_pc, actor_game, storage, replay_buffer,
               train_i, train_pc, saved_by, failed, result >>

vars == << config, network, min_max_stats, searchVars, normVars, callVars, pipeVars >>

(***************************************************************************)
(* Bounds of the model.                                                    *)
(***************************************************************************)
\* largest num_simulations a configuration may ask for
MaxSims == 3
\* largest max_moves of the configurations explored
MaxMoves == 2
\* update calls made on a normalizer on its own
MaxUpdates == 2
\* largest num_actors a configuration may ask for
MaxActors == 2
\* largest training_steps a configuration may ask for
MaxTrainingSteps == 2
\* games the replay buffer keeps
WindowSize == 2
\* expand_node calls made on a tree on its own
MaxExpands == 2
\* backpropagate calls made on a search path on its own
MaxBackprops == 2
\* nodes of the longest search path given to backpropagate on its own
MaxDepth == 3

(***************************************************************************)
(* Arithmetic.                                                             *)
(***************************************************************************)
Scale == 10 * 10 * 10

Max2(a, b) == IF a >= b THEN a ELSE b

Min2(a, b) == IF a <= b THEN a ELSE b

RECURSIVE SumOver(_, _)
SumOver(f, S) ==
    IF S = {} THEN 0
    ELSE LET a == CHOOSE b \in S : TRUE IN f[a] + SumOver(f, S \ {a})

(***************************************************************************)
(* helpers.py: MinMaxStats.                                                *)
(***************************************************************************)
\* float('inf'): above every value the model computes; the code only
\* compares it and takes max / min with it
MAXIMUM_FLOAT_VALUE == 2147483647

\* Optional[KnownBounds]: << >> is None, << b >> holds the pair b
NoBounds == << >>

KnownBounds(lo, hi) == << [min |-> lo, max |-> hi] >>

MinMaxStats(bounds) ==
    [maximum |-> IF bounds # << >> THEN bounds[1].max ELSE -MAXIMUM_FLOAT_VALUE,
     minimum |-> IF bounds # << >> THEN bounds[1].min ELSE MAXIMUM_FLOAT_VALUE]

\* update with max and min exchanged
update_swapped(stats, value) ==
    [maximum |-> Min2(stats.maximum, value),
     minimum |-> Max2(stats.minimum, value)]

update(stats, value) ==
    [maximum |-> Max2(stats.maximum, value),
     minimum |-> Min2(stats.minimum, value)]

\* normalize answering 0 when there is no range
normalize_zero_without_range(stats, value) ==
    IF stats.maximum > stats.minimum
    THEN ((value - stats.minimum) * Scale) \div (stats.maximum - stats.minimum)
    ELSE 0

normalize(stats, value) ==
    IF stats.maximum > stats.minimum
    THEN ((value - stats.minimum) * Scale) \div (stats.maximum - stats.minimum)
    ELSE value

(***************************************************************************)
(* node.py: Node.  A tree is a function from paths (the sequence of        *)
(* actions leading from the root to the node) to nodes; a node's children  *)
(* mapping is the set of its keys, the child under key a of the node at    *)
(* path p being the node at path Append(p, a).                             *)
(***************************************************************************)
Node(prior) ==
    [visit_count |-> 0, to_play |-> -1, prior |-> prior, value_sum |-> 0,
     children |-> {}, hidden_state |-> << >>, reward |-> 0]

expanded(node) == Cardinality(node.children) > 0

\* value returning the sum of the values, not their mean
value_sum_of(node) == node.value_sum

value(node) ==
    IF node.visit_count = 0 THEN 0
    ELSE node.value_sum \div node.visit_count

RootPath == << >>

EmptyTree == [p \in {} |-> Node(0)]

(***************************************************************************)
(* Configurations: muzero_config.MuZeroConfig.  make_board_game_config     *)
(* raises NameError at its `KnownBounds(-1, 1)` (cli.py 57), so the only   *)
(* factory that returns is make_atari_config; other configurations are     *)
(* built by calling MuZeroConfig.                                          *)
(***************************************************************************)
\* the fields this model reads; num_actors, training_steps and
\* checkpoint_interval are set by the pipeline's configurations below
MuZeroConfig(max_moves, discount, num_simulations, temperature_fn, known_bounds) ==
    [max_moves |-> max_moves, discount |-> discount,
     num_simulations |-> num_simulations,
     visit_softmax_temperature_fn |-> temperature_fn,
     known_bounds |-> known_bounds,
     num_actors |-> 0, training_steps |-> 0, checkpoint_interval |-> 1]

\* make_atari_config(), with max_moves of MaxMoves and k simulations
AtariConfig(k) == MuZeroConfig(MaxMoves, 997, k, "atari", NoBounds)

\* the functions given as visit_softmax_temperature_fn: the one of
\* make_atari_config, and one that returns 0 whatever it is given
TemperatureFns == {"atari", "zero"}

\* the discounts: 0.997 and 1
Discounts == {997, 1000}

Configs ==
    {MuZeroConfig(m, d, k, f, b) :
        m \in 0..MaxMoves, d \in Discounts, k \in 0..MaxSims, f \in TemperatureFns,
        b \in {NoBounds, KnownBounds(-1000, 1000)}}

visit_softmax_temperature(cfg, num_moves, training_steps) ==
    IF cfg.visit_softmax_temperature_fn = "zero" THEN 0
    ELSE (IF training_steps < 500000 THEN 1000
          ELSE IF training_steps < 750000 THEN 500 ELSE 250)

(***************************************************************************)
(* Collaborators that are not part of the sources: actions, the action     *)
(* history, the game and the network.                                      *)
(***************************************************************************)
\* the action space: Action(0), Action(1), ordered by index
Actions == {0, 1}

\* ActionHistory.action_space()
action_space == Actions

\* what Game.legal_actions() may return
LegalActionSets == SUBSET Actions

\* Game.to_play() / ActionHistory.to_play(): two players alternate
to_play_of(h) == Len(h) % 2

\* logits the network may give to an action
Logits == {0, 1}

\* the policy logits the network may return
PolicyLogits == {l \in [Actions -> Logits] : l[1] = 0}

\* the values and rewards the network may predict
Values == {-1000, 1000}

Rewards == {0, 1000}

\* Network.initial_inference(image): reward is 0
initial_inference(h) ==
    {[value |-> v, reward |-> 0, policy_logits |-> l, hidden_state |-> << Len(h) >>] :
        v \in Values, l \in PolicyLogits}

\* Network.recurrent_inference(hidden_state, action)
recurrent_inference(hidden_state, a) ==
    {[value |-> v, reward |-> r, policy_logits |-> l,
      hidden_state |-> Append(hidden_state, a)] :
        v \in Values, r \in Rewards, l \in PolicyLogits}

(***************************************************************************)
(* cli.py: the search.                                                     *)
(***************************************************************************)
\* the first statement of ucb_score evaluates math.log: NameError
ucb_score(cfg, parent, child, stats) == [raised |-> "NameError"]

\* max over the tuples (score, action, child) of the children: with no
\* child max raises ValueError; with children the first tuple is built by
\* calling ucb_score, whose exception comes out of select_child
select_child(cfg, t, p, stats) ==
    IF t[p].children = {} THEN [raised |-> "ValueError"]
    ELSE LET a == CHOOSE b \in t[p].children : \A c \in t[p].children : b <= c
         IN  [raised |-> ucb_score(cfg, t[p], t[Append(p, a)], stats).raised]

\* expand_node on the node at path p: to_play, hidden_state and reward are
\* assigned; the comprehension that follows evaluates math.exp for the first
\* action, NameError, so no child is added; over an empty list it evaluates
\* nothing, the loop adds no child and the function returns
expand_node(t, p, to_play, actions, output) ==
    [tree |-> [t EXCEPT ![p] = [@ EXCEPT !.to_play = to_play,
                                         !.hidden_state = output.hidden_state,
                                         !.reward = output.reward]],
     raised |-> IF actions = {} THEN "" ELSE "NameError"]

\* one node of the loop of backpropagate: value_sum and visit_count
backpropagate_node(node, v, to_play) ==
    [node EXCEPT !.value_sum = @ + (IF node.to_play = to_play THEN v ELSE -v),
                 !.visit_count = @ + 1]

\* backpropagate_value without the discount
backpropagate_value_undiscounted(node, v, discount) ==
    node.reward + v

\* the value carried to the parent
backpropagate_value(node, v, discount) ==
    node.reward + (discount * v) \div Scale

\* the tree and the statistics after the loop of backpropagate has handled
\* path[i], ..., path[1], carrying v into path[i]
RECURSIVE backpropagate(_, _, _, _, _, _, _)
backpropagate(t, path, i, v, to_play, discount, stats) ==
    IF i = 0 THEN [tree |-> t, stats |-> stats]
    ELSE LET p == path[i]
             node == backpropagate_node(t[p], v, to_play)
         IN  backpropagate([t EXCEPT ![p] = node], path, i - 1,
                           backpropagate_value(node, v, discount),
                           to_play, discount, update(stats, value(node)))

\* add_exploration_noise: after listing the keys of the children it
\* evaluates numpy.random.dirichlet, NameError; no prior is changed
add_exploration_noise(t, p) == [tree |-> t, raised |-> "NameError"]

\* the selection loop of run_mcts from the node path[Len(path)]: on an
\* expanded node its first select_child raises; on an unexpanded node the
\* loop is not entered
descend(cfg, t, stats, path) ==
    LET p == path[Len(path)]
    IN  IF expanded(t[p])
        THEN [raised |-> select_child(cfg, t, p, stats).raised]
        ELSE [raised |-> "", path |-> path]

\* softmax_sample is a stub
softmax_sample(distribution, temperature) == << 0, 0 >>

select_action(cfg, num_moves, t, p, net) ==
    LET visit_counts == {<< t[Append(p, a)].visit_count, a >> : a \in t[p].children}
        temp == visit_softmax_temperature(cfg, num_moves, net.training_steps)
    IN  softmax_sample(visit_counts, temp)[2]

(***************************************************************************)
(* cli.py: play_game as a state machine.                                   *)
(***************************************************************************)
NoOutput ==
    [value |-> 0, reward |-> 0, policy_logits |-> [a \in Actions |-> 0],
     hidden_state |-> << >>]

\* config.new_game()
NewGames ==
    {[history |-> << >>, terminal |-> over, legal_actions |-> legal,
      search_statistics |-> 0] : over \in BOOLEAN, legal \in LegalActionSets}

\* no episode is being played and no search is running
SearchIdle ==
    /\ game = CHOOSE g \in NewGames : ~g.terminal /\ g.legal_actions = Actions
    /\ pc = "done"
    /\ tree = EmptyTree
    /\ sims = 0
    /\ search_path = << >>
    /\ network_output = NoOutput
    /\ history = << >>
    /\ noised = << >>
    /\ raised = ""

\* no normalizer on its own
NormIdle ==
    /\ given_bounds = NoBounds
    /\ updates = << >>
    /\ norm_call = << >>

\* no function called on its own
CallIdle ==
    /\ expand_call = << >>
    /\ back_calls = << >>
    /\ select_call = << >>

\* no pipeline
PipeIdle ==
    /\ mz_pc = "returned"
    /\ running = 0
    /\ actor_pc = "latest_network"
    /\ actor_game = << >>
    /\ storage = << >>
    /\ replay_buffer = << >>
    /\ train_i = 0
    /\ train_pc = "loop"
    /\ saved_by = {}
    /\ failed = 0
    /\ result = << >>

\* play_game(config, network) is called
Init ==
    /\ config \in Configs
    /\ network = [training_steps |-> 0]
    /\ game \in NewGames
    /\ pc = "play_game"
    /\ tree = EmptyTree
    /\ min_max_stats = MinMaxStats(NoBounds)
    /\ sims = 0
    /\ search_path = << >>
    /\ network_output = NoOutput
    /\ history = << >>
    /\ noised = << >>
    /\ raised = ""
    /\ NormIdle
    /\ CallIdle
    /\ PipeIdle

\* the loop test of play_game; when it passes, root = Node(0) and expand_node
\* on the network's initial inference, whose exception, if it raises, ends
\* play_game
PlayGameExpandRoot ==
    /\ pc = "play_game"
    /\ ~game.terminal /\ Len(game.history) < config.max_moves
    /\ \E out \in initial_inference(game.history) :
          LET r == expand_node([p \in {RootPath} |-> Node(0)], RootPath,
                               to_play_of(game.history), game.legal_actions, out)
          IN  /\ tree' = r.tree
              /\ raised' = r.raised
              /\ pc' = IF r.raised = "" THEN "add_exploration_noise" ELSE "raised"
    /\ noised' = << >>
    /\ UNCHANGED << config, network, game, min_max_stats, sims, search_path,
                    network_output, history >>
    /\ UNCHANGED << normVars, callVars, pipeVars >>

\* the loop test fails: return game
PlayGameReturn ==
    /\ pc = "play_game"
    /\ game.terminal \/ Len(game.history) >= config.max_moves
    /\ pc' = "done"
    /\ UNCHANGED << config, network, game, tree, min_max_stats, sims, search_path,
                    network_output, history, noised, raised >>
    /\ UNCHANGED << normVars, callVars, pipeVars >>

\* add_exploration_noise(config, root), whose exception ends play_game:
\* run_mcts, select_action, game.apply and game.store_search_statistics
\* (cli.py 169-172) are never reached
AddExplorationNoise ==
    /\ pc = "add_exploration_noise"
    /\ LET r == add_exploration_noise(tree, RootPath)
       IN  /\ tree' = r.tree
           /\ raised' = r.raised
           /\ noised' = IF r.raised = "" THEN Append(noised, RootPath) ELSE noised
           /\ pc' = IF r.raised = "" THEN "run_mcts" ELSE "raised"
    /\ UNCHANGED << config, network, game, min_max_stats, sims, search_path,
                    network_output, history >>
    /\ UNCHANGED << normVars, callVars, pipeVars >>

Next ==
    \/ PlayGameExpandRoot
    \/ PlayGameReturn
    \/ AddExplorationNoise

Spec == Init /\ [][Next]_vars

(***************************************************************************)
(* Properties of play_game.                                                *)
(***************************************************************************)
\* C7: per tree, add_exploration_noise is applied exactly once, to the root,
\* after the root is expanded and before run_mcts: when it is called the
\* root is expanded and has no noise yet, and once the iteration is past the
\* call the root, and no other node, has had its noise.
C7_NoiseOncePerTree ==
    /\ pc = "add_exploration_noise" =>
          noised = << >> /\ expanded(tree[RootPath])
    /\ (tree # EmptyTree /\ pc # "add_exploration_noise") =>
          noised = << RootPath >>

\* C15: play_game expands a root only while the game is not terminal and
\* has fewer than max_moves actions, never has more than max_moves actions,
\* and when it is over the game is terminal or has max_moves actions.
C15_PlayGameTerminates ==
    /\ Len(game.history) <= config.max_moves
    /\ game.search_statistics = Len(game.history)
    /\ tree # EmptyTree => ~game.terminal /\ Len(game.history) < config.max_moves
    /\ pc \in {"done", "raised"} =>
          game.terminal \/ Len(game.history) = config.max_moves

(***************************************************************************)
(* cli.py: run_mcts as a state machine, called with a root built by hand   *)
(* (Node(prior) and assignments to its attributes), expanded or not.       *)
(***************************************************************************)
\* the priors given to the children of a root built by hand
Priors == {0, 500, 1000}

\* a root whose children are the actions of S, none of them visited
BuiltRoot(S, prior) ==
    [p \in {RootPath} \cup {<< a >> : a \in S} |->
        IF p = RootPath
        THEN [Node(0) EXCEPT !.children = S, !.to_play = 0, !.hidden_state = << 0 >>]
        ELSE Node(prior[p[1]])]

BuiltRoots ==
    UNION {{BuiltRoot(S, prior) : prior \in [S -> Priors]} : S \in SUBSET Actions}

\* the configurations run_mcts is called with
RunMctsConfigs ==
    {c \in Configs : c.max_moves = MaxMoves /\ c.visit_softmax_temperature_fn = "atari"}

\* run_mcts(config, root, action_history, network) is called
RunMctsInit ==
    /\ config \in RunMctsConfigs
    /\ network = [training_steps |-> 0]
    /\ game = CHOOSE g \in NewGames : ~g.terminal /\ g.legal_actions = Actions
    /\ pc = "run_mcts"
    /\ tree \in BuiltRoots
    /\ min_max_stats = MinMaxStats(NoBounds)
    /\ sims = 0
    /\ search_path = << >>
    /\ network_output = NoOutput
    /\ history = << >>
    /\ noised = << >>
    /\ raised = ""
    /\ NormIdle
    /\ CallIdle
    /\ PipeIdle

\* run_mcts up to its loop
RunMctsBegin ==
    /\ pc = "run_mcts"
    /\ min_max_stats' = MinMaxStats(config.known_bounds)
    /\ sims' = 0
    /\ pc' = "simulate"
    /\ UNCHANGED << config, network, game, tree, search_path, network_output,
                    history, noised, raised >>
    /\ UNCHANGED << normVars, callVars, pipeVars >>

\* one pass of the loop of run_mcts: the selection loop raises on an
\* expanded root; on an unexpanded root the search path is [root] and
\* search_path[-2] raises IndexError; the exception ends run_mcts
Simulate ==
    /\ pc = "simulate"
    /\ sims < config.num_simulations
    /\ LET d == descend(config, tree, min_max_stats, << RootPath >>)
       IN  IF d.raised # ""
           THEN /\ raised' = d.raised
                /\ pc' = "raised"
                /\ search_path' = << RootPath >>
                /\ UNCHANGED << tree, min_max_stats, network_output, history, sims >>
           ELSE IF Len(d.path) < 2
           THEN /\ raised' = "IndexError"
                /\ pc' = "raised"
                /\ search_path' = d.path
                /\ UNCHANGED << tree, min_max_stats, network_output, history, sims >>
           ELSE LET leaf == d.path[Len(d.path)]
                    hist == game.history \o leaf
                    parent == d.path[Len(d.path) - 1]
                IN  \E out \in recurrent_inference(tree[parent].hidden_state,
                                                   hist[Len(hist)]) :
                       LET e == expand_node(tree, leaf, to_play_of(hist),
                                            action_space, out)
                           r == backpropagate(e.tree, d.path, Len(d.path), out.value,
                                              to_play_of(hist), config.discount,
                                              min_max_stats)
                       IN  /\ search_path' = d.path
                           /\ network_output' = out
                           /\ history' = hist
                           /\ raised' = e.raised
                           /\ IF e.raised # ""
                              THEN /\ tree' = e.tree
                                   /\ pc' = "raised"
                                   /\ UNCHANGED << min_max_stats, sims >>
                              ELSE /\ tree' = r.tree
                                   /\ min_max_stats' = r.stats
                                   /\ sims' = sims + 1
                                   /\ pc' = pc
    /\ UNCHANGED << config, network, game, noised >>
    /\ UNCHANGED << normVars, callVars, pipeVars >>

\* the loop of run_mcts is over: run_mcts returns
RunMctsReturn ==
    /\ pc = "simulate"
    /\ sims >= config.num_simulations
    /\ pc' = "returned"
    /\ UNCHANGED << config, network, game, tree, min_max_stats, sims, search_path,
                    network_output, history, noised, raised >>
    /\ UNCHANGED << normVars, callVars, pipeVars >>

RunMctsNext ==
    \/ RunMctsBegin
    \/ Simulate
    \/ RunMctsReturn

RunMctsSpec == RunMctsInit /\ [][RunMctsNext]_vars

(***************************************************************************)
(* Properties of run_mcts.                                                 *)
(***************************************************************************)
\* the expanded nodes of a tree
ExpandedNodes(t) == {p \in DOMAIN t : expanded(t[p])}

\* C1: when run_mcts with num_simulations = k is over, the visit count of
\* its expanded root, 0 before the call, is k.
C1_RootVisitsEqualSimulations ==
    (pc \in {"returned", "raised"} /\ expanded(tree[RootPath])) =>
        tree[RootPath].visit_count = config.num_simulations

\* C5: on every expanded node, under the current normalizer, select_child
\* returns a key of the node's child mapping whose ucb_score is at least
\* the score of every child of the node.
C5_SelectChildMaximizesUcb ==
    \A p \in DOMAIN tree :
        expanded(tree[p]) =>
            LET r == select_child(config, tree, p, min_max_stats)
            IN  /\ r.raised = ""
                /\ r.action \in tree[p].children
                /\ \A b \in tree[p].children :
                      ucb_score(config, tree[p], tree[Append(p, r.action)],
                                min_max_stats).value
                          >= ucb_score(config, tree[p], tree[Append(p, b)],
                                       min_max_stats).value

\* C20: the simulations of a run_mcts call on a fresh expanded root expand
\* one node each: when the call is over, the tree holds num_simulations
\* expanded nodes besides the root, expanded by as many simulations, and the
\* root's child mapping, hidden state, reward and player to move are those
\* it was called with.
C20_OneExpansionPerSimulation ==
    (pc \in {"returned", "raised"} /\ expanded(tree[RootPath])) =>
        /\ sims = config.num_simulations
        /\ Cardinality(ExpandedNodes(tree) \ {RootPath}) = sims
        /\ tree[RootPath].hidden_state = << 0 >>
        /\ tree[RootPath].to_play = 0
        /\ tree[RootPath].reward = 0

(***************************************************************************)
(* helpers.py: a MinMaxStats on its own, built with any bounds, updated    *)
(* and asked to normalize.                                                 *)
(***************************************************************************)
\* the values given to update and normalize, and the bounds given to the
\* constructor: -1, -0.5, 0, 0.5, 1 and 2
NormValues == {-1000, -500, 0, 500, 1000, 2000}

BoundValues == {-1000, 0, 1000}

BoundChoices ==
    {NoBounds} \cup {KnownBounds(lo, hi) : lo \in BoundValues, hi \in BoundValues}

NormInit ==
    /\ given_bounds \in BoundChoices
    /\ min_max_stats = MinMaxStats(given_bounds)
    /\ updates = << >>
    /\ norm_call = << >>
    /\ config = AtariConfig(0)
    /\ network = [training_steps |-> 0]
    /\ SearchIdle
    /\ CallIdle
    /\ PipeIdle

NormUpdate ==
    /\ Len(updates) < MaxUpdates
    /\ \E v \in NormValues :
          /\ min_max_stats' = update(min_max_stats, v)
          /\ updates' = Append(updates, v)
    /\ norm_call' = << >>
    /\ UNCHANGED << config, network, given_bounds, searchVars, callVars, pipeVars >>

NormNormalize ==
    /\ \E v \in NormValues :
          norm_call' = << [value |-> v, result |-> normalize(min_max_stats, v)] >>
    /\ UNCHANGED << config, network, min_max_stats, given_bounds, updates,
                    searchVars, callVars, pipeVars >>

NormNext == NormUpdate \/ NormNormalize

NormSpec == NormInit /\ [][NormNext]_vars

(***************************************************************************)
(* Properties of the normalizer.                                           *)
(***************************************************************************)
\* C9, as claimed: normalize(v) returns v unchanged if and only if the
\* normalizer's minimum equals its maximum.
C9_UnchangedIffMinEqualsMax ==
    norm_call # << >> =>
        ((norm_call[1].result = norm_call[1].value)
            <=> (min_max_stats.minimum = min_max_stats.maximum))

\* C9, amended: normalize(v) returns v unchanged whenever the maximum is not
\* greater than the minimum (they are equal, or nothing was observed yet, or
\* the bounds given are reversed); when the maximum is greater it returns
\* (v - minimum) / (maximum - minimum), whether or not that differs from v.
C9_UnchangedWithoutRange ==
    norm_call # << >> =>
        LET v == norm_call[1].value
            r == norm_call[1].result
            lo == min_max_stats.minimum
            hi == min_max_stats.maximum
        IN  /\ hi <= lo => r = v
            /\ hi > lo => /\ r * (hi - lo) <= (v - lo) * Scale
                          /\ (v - lo) * Scale < (r + 1) * (hi - lo)

\* a normalizer that has seen one value only, 0.5, returns 1 for 1
C9_Witness ==
    /\ given_bounds = NoBounds
    /\ updates = << 500 >>
    /\ min_max_stats.minimum = min_max_stats.maximum
    /\ norm_call = << [value |-> 1000, result |-> 1000] >>

\* C10: a normalizer built with bounds (lo, hi), lo < hi, and updated only
\* with values of [lo, hi] keeps the range (lo, hi) and normalizes v to
\* (v - lo) / (hi - lo); with the bounds (-1, 1), 0.5 is normalized to 0.75
\* and, after update(-1) and update(1), 0 to 0.5.
C10_KnownBoundsKeepRange ==
    (/\ given_bounds # NoBounds
     /\ given_bounds[1].min < given_bounds[1].max
     /\ \A i \in 1..Len(updates) :
           given_bounds[1].min <= updates[i] /\ updates[i] <= given_bounds[1].max)
    => LET lo == given_bounds[1].min
           hi == given_bounds[1].max
       IN  /\ min_max_stats.minimum = lo
           /\ min_max_stats.maximum = hi
           /\ norm_call # << >> =>
                 /\ norm_call[1].result * (hi - lo) = (norm_call[1].value - lo) * Scale
                 /\ (lo = -1000 /\ hi = 1000 /\ norm_call[1].value = 500)
                       => norm_call[1].result = 750
                 /\ (lo = -1000 /\ hi = 1000 /\ updates = << -1000, 1000 >>
                        /\ norm_call[1].value = 0)
                       => norm_call[1].result = 500

C10_Witness ==
    /\ given_bounds = KnownBounds(-1000, 1000)
    /\ updates = << -1000, 1000 >>
    /\ norm_call = << [value |-> 0, result |-> 500] >>


\* C13: a MinMaxStats built with known bounds whose max is less than their
\* min never returns a value from normalize: the constructor or the call
\* raises.
C13_MalformedBoundsFailFast ==
    (given_bounds # NoBounds /\ given_bounds[1].max < given_bounds[1].min) =>
        norm_call = << >>

(***************************************************************************)
(* cli.py: backpropagate on its own, called on a search path built by hand *)
(* (a chain of nodes, each the child under action 0 of the one before),    *)
(* with a MinMaxStats built from the configuration's known bounds.         *)
(***************************************************************************)
\* the path of the node n levels below the root
ZeroPath(n) == [j \in 1..n |-> 0]

\* a chain of d nodes, the node at level i having to_play tp[i] and reward r[i]
ChainTree(d, tp, r) ==
    [p \in {ZeroPath(i) : i \in 0..(d - 1)} |->
        [Node(500) EXCEPT !.to_play = tp[Len(p)],
                          !.reward = r[Len(p)],
                          !.children = IF Len(p) < d - 1 THEN {0} ELSE {}]]

\* the configurations backpropagate is given the discount and the bounds of
BackConfigs ==
    {c \in Configs : /\ c.max_moves = MaxMoves
                     /\ c.num_simulations = 0
                     /\ c.visit_softmax_temperature_fn = "atari"}

BackInit ==
    /\ config \in BackConfigs
    /\ network = [training_steps |-> 0]
    /\ game = CHOOSE g \in NewGames : ~g.terminal /\ g.legal_actions = Actions
    /\ pc = "done"
    /\ \E d \in 1..MaxDepth :
          \E tp \in [0..(d - 1) -> {0, 1}], r \in [0..(d - 1) -> Rewards] :
              /\ tree = ChainTree(d, tp, r)
              /\ search_path = [i \in 1..d |-> ZeroPath(i - 1)]
    /\ min_max_stats = MinMaxStats(config.known_bounds)
    /\ sims = 0
    /\ network_output = NoOutput
    /\ history = << >>
    /\ noised = << >>
    /\ raised = ""
    /\ NormIdle
    /\ CallIdle
    /\ PipeIdle

\* backpropagate(search_path, value, to_play, config.discount, min_max_stats)
BackpropagateCall ==
    /\ Len(back_calls) < MaxBackprops
    /\ \E v \in Values, to_play \in {0, 1} :
          LET r == backpropagate(tree, search_path, Len(search_path), v, to_play,
                                 config.discount, min_max_stats)
          IN  /\ tree' = r.tree
              /\ min_max_stats' = r.stats
              /\ back_calls' = Append(back_calls, [value |-> v, to_play |-> to_play])
    /\ UNCHANGED << config, network, game, pc, sims, search_path, network_output,
                    history, noised, raised, expand_call, select_call >>
    /\ UNCHANGED << normVars, pipeVars >>

BackNext == BackpropagateCall

BackSpec == BackInit /\ [][BackNext]_vars

(***************************************************************************)
(* Properties of backpropagate, of Node.value and of the normalizer that   *)
(* backpropagate feeds.                                                    *)
(***************************************************************************)
\* the value the loop of backpropagate carries into path[i], the leaf
\* path[Len(path)] receiving v
RECURSIVE C6_Carried(_, _, _, _, _)
C6_Carried(t, path, i, v, discount) ==
    IF i = Len(path) THEN v
    ELSE t[path[i + 1]].reward
            + (discount * C6_Carried(t, path, i + 1, v, discount)) \div Scale

\* C6: a backpropagate call with the value v for the player to_play adds to
\* every node of the search path one visit and, to its value_sum, the value
\* carried into it when the node's to_play is to_play and its negation
\* otherwise; the value carried into the leaf is v and the value carried
\* into a node's parent is the node's reward plus the discount times the
\* value carried into the node.
C6_BackpropagateSignAndCarry ==
    [][back_calls' # back_calls =>
        LET call == back_calls'[Len(back_calls')]
        IN  \A i \in 1..Len(search_path) :
                LET p == search_path[i]
                    carried == C6_Carried(tree, search_path, i, call.value,
                                          config.discount)
                IN  /\ tree'[p].visit_count = tree[p].visit_count + 1
                    /\ tree'[p].value_sum = tree[p].value_sum +
                          (IF tree[p].to_play = call.to_play THEN carried
                           ELSE -carried)]_vars

\* a call on a path of three nodes, with a discount below 1, a negative
\* value, a rewarded node below the root and both players on the path
C6_Witness ==
    /\ Len(back_calls) = 1
    /\ Len(search_path) >= 3
    /\ config.discount = 997
    /\ back_calls[1].value = -1000
    /\ tree[search_path[2]].reward = 1000
    /\ tree[search_path[2]].to_play # back_calls[1].to_play
    /\ tree[search_path[3]].to_play = back_calls[1].to_play
    /\ tree[search_path[1]].visit_count = 1
    /\ tree[search_path[1]].value_sum # 0

\* C14: in every tree, whatever was backpropagated through it, the mean
\* value of a node is 0 when the node has no visit and the quotient of its
\* value_sum by its visit_count otherwise (to the precision of the fixed
\* point).
C14_MeanValue ==
    \A p \in DOMAIN tree :
        LET node == tree[p]
            mean == value(node)
        IN  /\ node.visit_count = 0 => mean = 0
            /\ node.visit_count > 0 =>
                  /\ mean * node.visit_count <= node.value_sum
                  /\ node.value_sum < (mean + 1) * node.visit_count

\* a node visited twice whose value_sum is not zero, its mean being half of it
C14_Witness ==
    /\ Len(back_calls) = 2
    /\ \E p \in DOMAIN tree :
          /\ tree[p].visit_count = 2
          /\ tree[p].value_sum > 0
          /\ value(tree[p]) * 2 = tree[p].value_sum
          /\ value(tree[p]) # tree[p].value_sum

(***************************************************************************)
(* cli.py: select_action on its own, called on a root built by hand whose  *)
(* children carry visit counts.                                            *)
(***************************************************************************)
\* a root whose children are the actions of S, visited visits[a] times
VisitedRoot(S, visits) ==
    [p \in {RootPath} \cup {<< a >> : a \in S} |->
        IF p = RootPath
        THEN [Node(0) EXCEPT !.children = S, !.to_play = 0, !.hidden_state = << 0 >>,
                             !.visit_count = SumOver(visits, S)]
        ELSE [Node(500) EXCEPT !.visit_count = visits[p[1]]]]

VisitedRoots ==
    UNION {{VisitedRoot(S, visits) : visits \in [S -> 0..MaxSims]} :
              S \in SUBSET Actions}

\* the configurations select_action is called with
SelectConfigs ==
    {c \in Configs : /\ c.max_moves = MaxMoves
                     /\ c.num_simulations = MaxSims
                     /\ c.discount = 997
                     /\ c.known_bounds = NoBounds}

SelectInit ==
    /\ config \in SelectConfigs
    /\ network = [training_steps |-> 0]
    /\ game = CHOOSE g \in NewGames : ~g.terminal /\ g.legal_actions = Actions
    /\ pc = "done"
    /\ tree \in VisitedRoots
    /\ min_max_stats = MinMaxStats(NoBounds)
    /\ sims = 0
    /\ search_path = << >>
    /\ network_output = NoOutput
    /\ history = << >>
    /\ noised = << >>
    /\ raised = ""
    /\ NormIdle
    /\ CallIdle
    /\ PipeIdle

\* select_action(config, num_moves, root, network)
SelectActionCall ==
    /\ \E num_moves \in 0..MaxMoves :
          select_call' = << [num_moves |-> num_moves,
                             action |-> select_action(config, num_moves, tree,
                                                      RootPath, network)] >>
    /\ UNCHANGED << config, network, min_max_stats, expand_call, back_calls >>
    /\ UNCHANGED << searchVars, normVars, pipeVars >>

SelectNext == SelectActionCall

SelectSpec == SelectInit /\ [][SelectNext]_vars

\* C11: when the temperature function returns 0, select_action on an
\* expanded root returns the action of a child of the root that no other
\* child exceeds in visit count.
C11_TemperatureZeroSelectsMostVisited ==
    (/\ select_call # << >>
     /\ expanded(tree[RootPath])
     /\ visit_softmax_temperature(config, select_call[1].num_moves,
                                  network.training_steps) = 0)
    => LET a == select_call[1].action
       IN  /\ a \in tree[RootPath].children
           /\ \A b \in tree[RootPath].children :
                 tree[Append(RootPath, a)].visit_count
                     >= tree[Append(RootPath, b)].visit_count

(***************************************************************************)
(* cli.py: expand_node on its own, called on the root of a tree with any   *)
(* list of actions, the empty list included.                               *)
(***************************************************************************)
ExpandInit ==
    /\ config = AtariConfig(0)
    /\ network = [training_steps |-> 0]
    /\ game = CHOOSE g \in NewGames : ~g.terminal /\ g.legal_actions = Actions
    /\ pc = "done"
    /\ tree = [p \in {RootPath} |-> Node(0)]
    /\ min_max_stats = MinMaxStats(NoBounds)
    /\ sims = 0
    /\ search_path = << >>
    /\ network_output = NoOutput
    /\ history = << >>
    /\ noised = << >>
    /\ raised = ""
    /\ NormIdle
    /\ CallIdle
    /\ PipeIdle

\* expand_node(node, to_play, actions, network_output) on a node of the tree
ExpandNodeCall ==
    /\ Len(search_path) < MaxExpands
    /\ \E p \in DOMAIN tree, actions \in SUBSET Actions, to_play \in {0, 1} :
          /\ \E out \in recurrent_inference(p, 0) :
                LET r == expand_node(tree, p, to_play, actions, out)
                IN  /\ tree' = r.tree
                    /\ network_output' = out
                    /\ expand_call' = << [path |-> p, actions |-> actions,
                                          to_play |-> to_play, raised |-> r.raised] >>
          /\ search_path' = Append(search_path, p)
    /\ UNCHANGED << config, network, min_max_stats, game, pc, sims, history,
                    noised, raised, back_calls, select_call >>
    /\ UNCHANGED << normVars, pipeVars >>

ExpandNext == ExpandNodeCall

ExpandSpec == ExpandInit /\ [][ExpandNext]_vars

\* C8: after an expand_node call with a non-empty list of actions the call
\* has returned, the node has exactly one child per action of the list, no
\* other child, and the priors of its children sum to 1.
C8_ExpandChildrenAndPriors ==
    (expand_call # << >> /\ expand_call[1].actions # {}) =>
        LET p == expand_call[1].path
        IN  /\ expand_call[1].raised = ""
            /\ tree[p].children = expand_call[1].actions
            /\ \A a \in Actions : Append(p, a) \in DOMAIN tree <=> a \in tree[p].children
            /\ SumOver([a \in tree[p].children |-> tree[Append(p, a)].prior],
                       tree[p].children) = Scale

\* C12: an expand_node call given an empty list of actions ends in an error;
\* it does not return leaving the node without children.
C12_EmptyExpansionFailsFast ==
    (expand_call # << >> /\ expand_call[1].actions = {}) =>
        expand_call[1].raised # ""

(***************************************************************************)
(* cli.py: muzero, launch_job, run_selfplay and train_network.             *)
(*                                                                         *)
(* launch_job calls the function it is given: the coordinator runs the    *)
(* actor's run_selfplay itself and goes on only when that call is over.    *)
(***************************************************************************)
PipeConfigs ==
    {[AtariConfig(0) EXCEPT !.num_actors = n, !.training_steps = k,
                            !.checkpoint_interval = c, !.max_moves = m] :
        n \in 0..MaxActors, k \in 0..MaxTrainingSteps, c \in 1..2,
        m \in {0, MaxMoves}}

\* play_game(config, network) on the new game g: it returns g untouched when
\* its loop test fails at once, and otherwise raises NameError in its first
\* iteration, from expand_node or from add_exploration_noise
play_game(cfg, g) ==
    [game |-> g,
     raised |-> IF g.terminal \/ Len(g.history) >= cfg.max_moves THEN ""
                ELSE "NameError"]

\* SharedStorage.latest_network(): the network saved under the greatest
\* step, or a uniform network when none was saved
latest_network(st) ==
    IF st = << >> THEN [training_steps |-> 0]
    ELSE LET top == CHOOSE i \in 1..Len(st) :
                        /\ \A j \in 1..Len(st) : st[j].step <= st[i].step
                        /\ \A j \in (i + 1)..Len(st) : st[j].step < st[i].step
         IN  st[top].network

\* SharedStorage.save_network(step, network)
save_network(st, step, net) == Append(st, [step |-> step, network |-> net])

\* ReplayBuffer.save_game(game): the oldest game leaves a full buffer
save_game(buffer, g) ==
    IF Len(buffer) >= WindowSize THEN Append(Tail(buffer), g) ELSE Append(buffer, g)

\* muzero(config) is called
PipeInit ==
    /\ config \in PipeConfigs
    /\ network = [training_steps |-> 0]
    /\ mz_pc = "launch"
    /\ running = 0
    /\ actor_pc = "latest_network"
    /\ actor_game = << >>
    /\ storage = << >>
    /\ replay_buffer = << >>
    /\ train_i = 0
    /\ train_pc = "loop"
    /\ saved_by = {}
    /\ failed = 0
    /\ result = << >>
    /\ min_max_stats = MinMaxStats(NoBounds)
    /\ SearchIdle
    /\ NormIdle
    /\ CallIdle

\* the loop of muzero comes to launch_job for the first actor: the
\* coordinator enters that actor's run_selfplay
MuzeroLaunchJob ==
    /\ mz_pc = "launch"
    /\ config.num_actors > 0
    /\ running' = 1
    /\ actor_pc' = "latest_network"
    /\ mz_pc' = "run_selfplay"
    /\ UNCHANGED << config, network, min_max_stats, actor_game, storage, replay_buffer,
                    train_i, train_pc, saved_by, failed, result, searchVars, normVars, callVars >>

\* there is no actor to launch: muzero calls train_network
MuzeroTrainNetwork ==
    /\ mz_pc = "launch"
    /\ config.num_actors = 0
    /\ mz_pc' = "train_network"
    /\ train_i' = 0
    /\ train_pc' = "loop"
    /\ UNCHANGED << config, network, min_max_stats, running, actor_pc, actor_game,
                    storage, replay_buffer, saved_by, failed, result, searchVars,
                    normVars, callVars >>

\* run_selfplay: network = storage.latest_network()
ActorLatestNetwork ==
    /\ mz_pc = "run_selfplay"
    /\ actor_pc = "latest_network"
    /\ network' = latest_network(storage)
    /\ actor_pc' = "play_game"
    /\ UNCHANGED << config, min_max_stats, mz_pc, running, actor_game, storage,
                    replay_buffer, train_i, train_pc, saved_by, failed, result,
                    searchVars, normVars, callVars >>

\* run_selfplay: game = play_game(config, network); nothing between the
\* call and the caller of muzero catches the exception of a play_game that
\* raises
ActorPlayGame ==
    /\ mz_pc = "run_selfplay"
    /\ actor_pc = "play_game"
    /\ \E g \in NewGames :
          IF play_game(config, g).raised = ""
          THEN /\ actor_game' = << [actor |-> running,
                                    training_steps |-> network.training_steps] >>
               /\ actor_pc' = "save_game"
               /\ UNCHANGED << mz_pc, failed >>
          ELSE /\ failed' = running
               /\ mz_pc' = "raised"
               /\ UNCHANGED << actor_game, actor_pc >>
    /\ UNCHANGED << config, network, min_max_stats, running, storage,
                    replay_buffer, train_i, train_pc, saved_by, result,
                    searchVars, normVars, callVars >>

\* ActorSaveGame going round the loop to play_game, without a new
\* latest_network call
ActorSaveGame_keeping_network ==
    /\ mz_pc = "run_selfplay"
    /\ actor_pc = "save_game"
    /\ replay_buffer' = save_game(replay_buffer, actor_game[1])
    /\ saved_by' = saved_by \cup {running}
    /\ actor_game' = << >>
    /\ actor_pc' = "play_game"
    /\ UNCHANGED << config, network, min_max_stats, mz_pc, running, storage,
                    train_i, train_pc, failed, result, searchVars, normVars, callVars >>

\* run_selfplay: replay_buffer.save_game(game), and around the loop
ActorSaveGame ==
    /\ mz_pc = "run_selfplay"
    /\ actor_pc = "save_game"
    /\ replay_buffer' = save_game(replay_buffer, actor_game[1])
    /\ saved_by' = saved_by \cup {running}
    /\ actor_game' = << >>
    /\ actor_pc' = "latest_network"
    /\ UNCHANGED << config, network, min_max_stats, mz_pc, running, storage,
                    train_i, train_pc, failed, result, searchVars, normVars, callVars >>

\* a call of the actor on a collaborator (latest_network, the game or the
\* network inside play_game, save_game) raises: nothing between the call and
\* the caller of muzero catches it
ActorRaise ==
    /\ mz_pc = "run_selfplay"
    /\ failed' = running
    /\ mz_pc' = "raised"
    /\ UNCHANGED << config, network, min_max_stats, running, actor_pc, actor_game,
                    storage, replay_buffer, train_i, train_pc, saved_by, result,
                    searchVars, normVars, callVars >>

\* train_network: the loop test and, every checkpoint_interval steps,
\* storage.save_network(i, network)
TrainLoop ==
    /\ mz_pc = "train_network"
    /\ train_pc = "loop"
    /\ train_i < config.training_steps
    /\ storage' = IF train_i % config.checkpoint_interval = 0
                  THEN save_network(storage, train_i, [training_steps |-> train_i])
                  ELSE storage
    /\ train_pc' = "sample_batch"
    /\ UNCHANGED << config, network, min_max_stats, mz_pc, running, actor_pc,
                    actor_game, replay_buffer, train_i, saved_by, failed, result,
                    searchVars, normVars, callVars >>

\* train_network: batch = replay_buffer.sample_batch(...)
TrainSampleBatch ==
    /\ mz_pc = "train_network"
    /\ train_pc = "sample_batch"
    /\ train_pc' = "update_weights"
    /\ UNCHANGED << config, network, min_max_stats, mz_pc, running, actor_pc,
                    actor_game, storage, replay_buffer, train_i, saved_by, failed,
                    result, searchVars, normVars, callVars >>

\* train_network: update_weights(...), and around the loop
TrainUpdateWeights ==
    /\ mz_pc = "train_network"
    /\ train_pc = "update_weights"
    /\ train_i' = train_i + 1
    /\ train_pc' = "loop"
    /\ UNCHANGED << config, network, min_max_stats, mz_pc, running, actor_pc,
                    actor_game, storage, replay_buffer, saved_by, failed, result,
                    searchVars, normVars, callVars >>

\* TrainFinalCheckpoint saving under the step of the last pass of the loop
TrainFinalCheckpoint_last_step ==
    /\ mz_pc = "train_network"
    /\ train_pc = "loop"
    /\ train_i >= config.training_steps
    /\ storage' = save_network(storage, train_i - 1, [training_steps |-> train_i])
    /\ mz_pc' = "return"
    /\ UNCHANGED << config, network, min_max_stats, running, actor_pc, actor_game,
                    replay_buffer, train_i, train_pc, saved_by, failed, result,
                    searchVars, normVars, callVars >>

\* train_network: the loop is over, storage.save_network(training_steps, network)
TrainFinalCheckpoint ==
    /\ mz_pc = "train_network"
    /\ train_pc = "loop"
    /\ train_i >= config.training_steps
    /\ storage' = save_network(storage, config.training_steps,
                               [training_steps |-> train_i])
    /\ mz_pc' = "return"
    /\ UNCHANGED << config, network, min_max_stats, running, actor_pc, actor_game,
                    replay_buffer, train_i, train_pc, saved_by, failed, result,
                    searchVars, normVars, callVars >>

\* muzero: return storage.latest_network()
MuzeroReturn ==
    /\ mz_pc = "return"
    /\ result' = << latest_network(storage) >>
    /\ mz_pc' = "returned"
    /\ UNCHANGED << config, network, min_max_stats, running, actor_pc, actor_game,
                    storage, replay_buffer, train_i, train_pc, saved_by, failed,
                    searchVars, normVars, callVars >>

PipeNext ==
    \/ MuzeroLaunchJob
    \/ MuzeroTrainNetwork
    \/ ActorLatestNetwork
    \/ ActorPlayGame
    \/ ActorSaveGame
    \/ ActorRaise
    \/ TrainLoop
    \/ TrainSampleBatch
    \/ TrainUpdateWeights
    \/ TrainFinalCheckpoint
    \/ MuzeroReturn

PipeSpec == PipeInit /\ [][PipeNext]_vars

\* the one thread of the process keeps running while it has a step to take
FairPipeSpec == PipeSpec /\ WF_vars(PipeNext)

(***************************************************************************)
(* Properties of the pipeline.                                             *)
(***************************************************************************)
\* C2: with at least one actor, unless a call raises, the training loop
\* eventually makes its training_steps steps and the final checkpoint
\* save_network(training_steps, network), which muzero returns.
C2_TrainingEventuallyCompletes ==
    <>(\/ config.num_actors = 0
       \/ mz_pc = "raised"
       \/ /\ mz_pc = "returned"
          /\ train_i = config.training_steps
          /\ storage # << >>
          /\ storage[Len(storage)].step = config.training_steps
          /\ result = << storage[Len(storage)].network >>)

\* C3: with at least two actors, unless a call raises, every actor
\* eventually calls save_game, whatever the other actors do.
C3_EveryActorEventuallySaves ==
    \A a \in 1..MaxActors :
        <>(\/ config.num_actors < 2
           \/ a > config.num_actors
           \/ mz_pc = "raised"
           \/ a \in saved_by)

\* C4: a call that raises in one actor's run_selfplay does not abort muzero.
C4_ActorFailureContained ==
    failed # 0 => mz_pc # "raised"

(***************************************************************************)
(* Further properties of the pipeline.                                     *)
(***************************************************************************)
\* C17: an actor goes round latest_network, play_game, save_game in that
\* order, so one latest_network call precedes every save_game since the
\* save_game before it; the network it plays with changes only by that
\* call, to the network the call returned; the game it saves is the game
\* played with that network; only train_network writes to the storage and
\* only an actor writes to the replay buffer.
C17_ActorFetchesBeforeEachEpisode ==
    [][/\ actor_pc' # actor_pc =>
             << actor_pc, actor_pc' >> \in
                 {<< "latest_network", "play_game" >>, << "play_game", "save_game" >>,
                  << "save_game", "latest_network" >>}
       /\ network' # network =>
             /\ mz_pc = "run_selfplay" /\ actor_pc = "latest_network"
             /\ network' = latest_network(storage)
       /\ (actor_game' # actor_game /\ actor_game' # << >>) =>
             /\ actor_pc = "play_game"
             /\ actor_game'[1] =
                   [actor |-> running, training_steps |-> network.training_steps]
       /\ replay_buffer' # replay_buffer =>
             /\ mz_pc = "run_selfplay" /\ actor_pc = "save_game"
             /\ replay_buffer'[Len(replay_buffer')] = actor_game[1]
             /\ actor_game[1].training_steps = network.training_steps
       /\ storage' # storage => mz_pc = "train_network"]_vars

\* an actor about to fetch the network for its third episode
C17_Witness ==
    /\ mz_pc = "run_selfplay"
    /\ actor_pc = "latest_network"
    /\ Len(replay_buffer) >= 2
    /\ saved_by = {1}
    /\ storage = << >>

\* the steps save_network was called with, in order
SavedSteps == [k \in 1..Len(storage) |-> storage[k].step]

\* the steps below n at which train_network saves a checkpoint
CheckpointSteps(n) == {i \in 0..(n - 1) : i % config.checkpoint_interval = 0}

\* C18: within a train_network run the steps given to save_network are
\* strictly increasing; while the loop is at step i the steps saved are the
\* multiples of checkpoint_interval below i, and i itself if it is one and
\* the loop is past its test, so before the batch of step i is sampled; the
\* last save is the final checkpoint, with step training_steps, made after
\* training_steps optimization steps.
C18_CheckpointStepsIncrease ==
    /\ \A j, k \in 1..Len(storage) : j < k => SavedSteps[j] < SavedSteps[k]
    /\ mz_pc = "train_network" =>
          /\ train_i <= config.training_steps
          /\ {SavedSteps[k] : k \in 1..Len(storage)} =
                CheckpointSteps(IF train_pc = "loop" THEN train_i ELSE train_i + 1)
    /\ mz_pc \in {"return", "returned"} =>
          /\ train_i = config.training_steps
          /\ SavedSteps[Len(storage)] = config.training_steps
          /\ {SavedSteps[k] : k \in 1..Len(storage)} =
                CheckpointSteps(config.training_steps) \cup {config.training_steps}

\* train_network has returned after two steps with a checkpoint at each
C18_Witness ==
    /\ mz_pc = "returned"
    /\ config.training_steps = MaxTrainingSteps
    /\ config.checkpoint_interval = 1
    /\ Len(storage) = MaxTrainingSteps + 1
    /\ MaxTrainingSteps >= 2

====
